---- MODULE Spec2Model ----
(***************************************************************************)
(* django_tenants: the search_path routing of                              *)
(* postgresql_backend.base.DatabaseWrapper and the tenant iteration of     *)
(* management.commands.BaseTenantCommand.                                  *)
(***************************************************************************)
EXTENDS Integers, Sequences, FiniteSets, TLC

\* ------------------------------------------------------------------ bounds
\* Number of distinct cursor objects the wrapped backend can hand out.
NumCursors == 2
\* Number of _cursor() calls followed in one behaviour.
MaxCalls == 3
\* Number of statements of one job followed.
MaxJobCalls == 1
\* Number of inputs read at the tenant prompt.
MaxPrompts == 3

\* ----------------------------------------------------------- configuration
\* get_public_role_name(): the name of the shared role.
PublicRoleName == "public"
\* Python's None, for _previous_cursor and for "no cursor returned".
None == 0
\* Cursor objects by identity.
Cursors == 1..NumCursors
\* Role names of tenants of the directory.
TenantNames == {"public", "acme", "globex"}
\* Role names a caller can pass to set_role(): any string, the empty one too.
RoleNames == TenantNames \cup {""}
\* settings.PG_EXTRA_SEARCH_PATHS, read once at import.
ExtraChoices == {<<>>, <<"shared_extra">>, <<"ext_a", "ext_b">>}
\* The tenant directories: every ordering of every set of tenants.
Directories ==
    {d \in UNION {[1..n -> TenantNames] : n \in 0..Cardinality(TenantNames)} :
        \A i, j \in DOMAIN d : i # j => d[i] # d[j]}
\* The cursor name argument of _cursor(name=None): falsy or a real name.
CursorNames == {"", "srv"}
\* What cursor.execute('SET search_path = ...') can do.
ExecOutcomes == {"ok", "DatabaseError", "InternalError", "OtherError"}

VARIABLES
    \* DatabaseWrapper instance state
    search_path_set,       \* self.search_path_set
    tenant,                \* self.tenant, as [role_name, fake]
    role_name,             \* self.role_name
    include_public_role,   \* self.include_public_role: <<>> while the attribute
                           \* does not exist, <<b>> once it was assigned b
    settings_ROLE,         \* self.settings_dict['ROLE']
    _previous_cursor,      \* self._previous_cursor
    \* module/process configuration
    limit_set_calls,       \* get_limit_set_calls()
    EXTRA_SEARCH_PATHS,    \* EXTRA_SEARCH_PATHS
    \* observation of the calls made
    ret,                   \* what the last call did and returned
    ncalls,                \* _cursor() calls so far
    nissued,               \* 'SET search_path' statements executed so far
    runCalls,              \* _cursor() calls since the last setter/close/cursor change
    runIssued,             \* directives executed in those calls
    runFirst,              \* what the first of those calls did
    \* one run of BaseTenantCommand.handle
    cmd_pc,                \* "idle", "loop" (line 70), "job" (inside call_command),
                           \* "done" (handle returned), "raised" (an exception left it)
    directory,             \* get_tenant_model().objects.all(): role names in order
    opt_role_name,         \* options['role_name'] ("" when not given)
    opt_skip_public,       \* options['skip_public']
    cmd_i,                 \* position of the loop of line 70 in directory
    job_calls,             \* statements the running job has made
    jobs,                  \* the call_command invocations made, in order
    cmd_error,             \* the exception that left handle
    \* history kept where a property needs it
    directive,             \* the directive executed last: its list and what the
                           \* engine did with it
    \* one run of SyncCommon.handle
    sync_pc,               \* "idle", "done" (handle returned), "raised"
    sync_options,          \* the options handle was given, and the _cursor()
                           \* calls made when it was entered
    sync_tenant,           \* self.sync_tenant
    sync_public,           \* self.sync_public
    sync_role_name,        \* self.role_name of the command
    sync_executor,         \* self.executor
    sync_apps,             \* which of self.tenant_apps, self.shared_apps are set
    sync_error,            \* the exception that left handle
    \* one run of get_tenant_from_options_or_interactive
    sel_pc,                \* "idle", "prompt" (line 95), "done", "raised"
    sel_opt,               \* options.get('role_name') ("" when not given)
    all_tenants,           \* all_tenants: role names in order
    tenant_schema,         \* tenant_schema
    sel_prompts,           \* inputs read
    sel_listed,            \* listings printed
    sel_lookups,           \* name lookups made (lines 101 and 104)
    sel_result,            \* the role name of the tenant returned
    sel_error              \* the exception that left the operation

connVars == <<search_path_set, tenant, role_name, include_public_role,
              settings_ROLE, _previous_cursor>>
cfgVars == <<limit_set_calls, EXTRA_SEARCH_PATHS>>
obsVars == <<ret, ncalls, nissued, runCalls, runIssued, runFirst>>
cmdVars == <<cmd_pc, directory, opt_role_name, opt_skip_public, cmd_i,
             job_calls, jobs, cmd_error>>
histVars == <<directive>>
syncVars == <<sync_pc, sync_options, sync_tenant, sync_public, sync_role_name,
              sync_executor, sync_apps, sync_error>>
selVars == <<sel_pc, sel_opt, all_tenants, tenant_schema, sel_prompts,
             sel_listed, sel_lookups, sel_result, sel_error>>
vars == <<connVars, cfgVars, obsVars, cmdVars, histVars, syncVars, selVars>>

\* ------------------------------------------------------------ pure helpers
\* FakeTenant(role_name=r)
FakeTenant(r) == [role_name |-> r, fake |-> TRUE]
\* A tenant of the directory (a TenantModel instance).
Tenant(n) == [role_name |-> n, fake |-> FALSE]

\* The condition of line 124: whether _cursor() sets the search path.
NeedsSet_NoCache(limit, sps, prev, cursor) == TRUE
NeedsSet_NoIdentity(limit, sps, prev, cursor) == (~limit) \/ ~sps
NeedsSet_NoLimitFlag(limit, sps, prev, cursor) == (~sps) \/ prev # cursor
NeedsSet(limit, sps, prev, cursor) ==
    (~limit) \/ (~sps) \/ prev # cursor

\* Lines 136-145: the ordered list of the directive.
SearchPaths_PublicNoExtras(role, inc, extras) ==
    IF role = PublicRoleName THEN <<PublicRoleName>>
    ELSE IF inc = <<TRUE>> THEN <<role, PublicRoleName>> \o extras
    ELSE <<role>> \o extras
SearchPaths_ExtrasFirst(role, inc, extras) ==
    IF role = PublicRoleName THEN <<PublicRoleName>> \o extras
    ELSE IF inc = <<TRUE>> THEN extras \o <<role, PublicRoleName>>
    ELSE extras \o <<role>>
SearchPaths(role, inc, extras) ==
    (IF role = PublicRoleName THEN <<PublicRoleName>>
     ELSE IF inc = <<TRUE>> THEN <<role, PublicRoleName>>
     ELSE <<role>>) \o extras

\* Line 160: the exceptions the except clause names.
Caught(outcome) == outcome \in {"DatabaseError", "InternalError"}

\* Lines 158-163: search_path_set after the execute; an exception the except
\* clause does not name leaves it as it was.
SearchPathSetAfter_KeepOnError(outcome, old) ==
    IF outcome = "ok" THEN TRUE ELSE old
SearchPathSetAfter(outcome, old) ==
    IF outcome = "ok" THEN TRUE
    ELSE IF Caught(outcome) THEN FALSE
    ELSE old

\* The record of one call: what it was entered with (was_set, was_prev: the
\* search_path_set and _previous_cursor it found; after: the call before it),
\* the cursor super()._cursor gave it, what the directive did (outcome:
\* "none" for a call that is no _cursor(), "cached" when none was executed,
\* "unconfigured" when line 132 raised, else the engine's answer), the list
\* of the directive, the exception that left the call, the cursor returned
\* and the state of the administrative cursor of a named call.
MkRet(op, name, cursor, outcome, paths) ==
    [op |-> op, named |-> name # "", cursor |-> cursor, outcome |-> outcome,
     paths |-> paths,
     raised |-> IF outcome = "unconfigured" THEN "ImproperlyConfigured"
                ELSE IF outcome \in {"none", "cached", "ok"} \/ Caught(outcome)
                THEN "none" ELSE outcome,
     returned |-> IF outcome \in {"cached", "ok"} \/ Caught(outcome)
                  THEN cursor ELSE None,
     admin |-> IF name = "" \/ outcome \in {"none", "cached", "unconfigured"}
               THEN "none"
               ELSE IF outcome = "ok" \/ Caught(outcome) THEN "closed"
               ELSE "open",
     was_set |-> search_path_set, was_prev |-> _previous_cursor,
     after |-> [op |-> ret.op, outcome |-> ret.outcome, was_set |-> ret.was_set]]

\* The record of a call that obtained no cursor.
NoCursorRet(op) == MkRet(op, "", None, "none", <<>>)

Setters == {"set_tenant", "set_role", "set_role_to_public"}

\* ---------------------------------------------------------------- __init__
\* role_name after construction: __init__ ends with set_role_to_public().
InitRoleName_Unset == ""
InitRoleName == PublicRoleName

Init ==
    /\ search_path_set = FALSE
    /\ tenant = FakeTenant(InitRoleName)
    /\ role_name = InitRoleName
    /\ include_public_role = <<>>
    /\ settings_ROLE = InitRoleName
    /\ _previous_cursor = None
    /\ limit_set_calls \in BOOLEAN
    /\ EXTRA_SEARCH_PATHS \in ExtraChoices
    /\ ret = [op |-> "__init__", named |-> FALSE, cursor |-> None,
               outcome |-> "none", paths |-> <<>>, raised |-> "none",
               returned |-> None, admin |-> "none", was_set |-> FALSE,
               was_prev |-> None,
               after |-> [op |-> "none", outcome |-> "none", was_set |-> FALSE]]
    /\ ncalls = 0
    /\ nissued = 0
    /\ runCalls = 0
    /\ runIssued = 0
    /\ runFirst = "none"
    /\ cmd_pc = "idle"
    /\ directory = <<>>
    /\ opt_role_name = ""
    /\ opt_skip_public = FALSE
    /\ cmd_i = 0
    /\ job_calls = 0
    /\ jobs = <<>>
    /\ cmd_error = "none"
    /\ directive = [paths |-> <<>>, outcome |-> "none"]
    /\ sync_pc = "idle"
    /\ sync_options = [tenant |-> FALSE, shared |-> FALSE, role_name |-> "",
                       executor |-> "", ncalls |-> 0]
    /\ sync_tenant = FALSE
    /\ sync_public = FALSE
    /\ sync_role_name = ""
    /\ sync_executor = ""
    /\ sync_apps = {}
    /\ sync_error = "none"
    /\ sel_pc = "idle"
    /\ sel_opt = ""
    /\ all_tenants = <<>>
    /\ tenant_schema = ""
    /\ sel_prompts = 0
    /\ sel_listed = 0
    /\ sel_lookups = 0
    /\ sel_result = ""
    /\ sel_error = "none"

\* A setter or close() ends the current run of _cursor() calls.
ResetRun ==
    /\ runCalls' = 0
    /\ runIssued' = 0
    /\ runFirst' = "none"

\* ------------------------------------------------------------------ close
close_KeepFlag ==
    /\ ret' = NoCursorRet("close")
    /\ ResetRun
    /\ UNCHANGED <<connVars, cfgVars, ncalls, nissued>>
close ==
    /\ search_path_set' = FALSE
    /\ ret' = NoCursorRet("close")
    /\ ResetRun
    /\ UNCHANGED <<tenant, role_name, include_public_role, settings_ROLE,
                   _previous_cursor, cfgVars, ncalls, nissued>>

\* ---------------------------------------------------------------- setters
set_tenant_Eager(t, include_public) ==
    /\ tenant' = t
    /\ role_name' = t.role_name
    /\ include_public_role' = <<include_public>>
    /\ settings_ROLE' = t.role_name
    /\ search_path_set' = TRUE
    /\ nissued' = nissued + 1
    /\ ret' = NoCursorRet("set_tenant")
    /\ ResetRun
    /\ UNCHANGED <<_previous_cursor, cfgVars, ncalls>>
set_tenant(t, include_public) ==
    /\ tenant' = t
    /\ role_name' = t.role_name
    /\ include_public_role' = <<include_public>>
    /\ settings_ROLE' = t.role_name
    /\ search_path_set' = FALSE
    /\ ret' = NoCursorRet("set_tenant")
    /\ ResetRun
    /\ UNCHANGED <<_previous_cursor, cfgVars, ncalls, nissued>>

set_role(r, include_public) ==
    /\ tenant' = FakeTenant(r)
    /\ role_name' = r
    /\ include_public_role' = <<include_public>>
    /\ settings_ROLE' = r
    /\ search_path_set' = FALSE
    /\ ret' = NoCursorRet("set_role")
    /\ ResetRun
    /\ UNCHANGED <<_previous_cursor, cfgVars, ncalls, nissued>>

set_role_to_public ==
    /\ tenant' = FakeTenant(PublicRoleName)
    /\ role_name' = PublicRoleName
    /\ settings_ROLE' = PublicRoleName
    /\ search_path_set' = FALSE
    /\ ret' = NoCursorRet("set_role_to_public")
    /\ ResetRun
    /\ UNCHANGED <<include_public_role, _previous_cursor, cfgVars, ncalls, nissued>>

\* ---------------------------------------------------------------- _cursor
\* The run bookkeeping of one _cursor() call on `cursor` whose directive did
\* `outcome` ("cached": none executed, "unconfigured": raised before it).
CountRun(cursor, outcome) ==
    LET issued == IF outcome \in ExecOutcomes THEN 1 ELSE 0
        same == runCalls > 0 /\ ret.op = "_cursor" /\ ret.cursor = cursor
    IN  /\ ncalls' = ncalls + 1
        /\ nissued' = nissued + issued
        /\ runCalls' = IF same THEN runCalls + 1 ELSE 1
        /\ runIssued' = IF same THEN runIssued + issued ELSE issued
        /\ runFirst' = IF same THEN runFirst ELSE outcome

\* _cursor(name): `cursor` is what super()._cursor returns, `outcome` what the
\* engine does with the directive if it is executed.
_cursor(name, cursor, outcome) ==
    /\ ncalls < MaxCalls
    /\ IF ~NeedsSet(limit_set_calls, search_path_set, _previous_cursor, cursor)
       THEN \* line 166 alone
            /\ ret' = MkRet("_cursor", name, cursor, "cached", <<>>)
            /\ CountRun(cursor, "cached")
            /\ UNCHANGED <<connVars, cfgVars>>
       ELSE IF role_name = ""
       THEN \* lines 127-133
            /\ _previous_cursor' = cursor
            /\ ret' = MkRet("_cursor", name, cursor, "unconfigured", <<>>)
            /\ CountRun(cursor, "unconfigured")
            /\ UNCHANGED <<search_path_set, tenant, role_name, include_public_role,
                           settings_ROLE, cfgVars>>
       ELSE \* lines 127-166
            /\ _previous_cursor' = cursor
            /\ search_path_set' = SearchPathSetAfter(outcome, search_path_set)
            /\ ret' = MkRet("_cursor", name, cursor, outcome,
                            SearchPaths(role_name, include_public_role,
                                        EXTRA_SEARCH_PATHS))
            /\ CountRun(cursor, outcome)
            /\ UNCHANGED <<tenant, role_name, include_public_role, settings_ROLE,
                           cfgVars>>

\* ------------------------------------------------------ BaseTenantCommand
\* Line 71: whether the loop passes over a tenant.
SkipsTenant_IgnoreOption(skip_public, name) == name = PublicRoleName
SkipsTenant(skip_public, name) == skip_public /\ name = PublicRoleName

\* handle(), lines 64-70, up to the first tenant. With a role name it calls
\* connection.set_schema_to_public(), a method the DatabaseWrapper does not
\* have (it is set_role_to_public there): AttributeError leaves handle.
handle(rn, skip, dir) ==
    /\ cmd_pc = "idle"
    /\ opt_role_name' = rn
    /\ opt_skip_public' = skip
    /\ directory' = dir
    /\ jobs' = <<>>
    /\ IF rn # ""
       THEN /\ cmd_pc' = "raised"
            /\ cmd_error' = "AttributeError"
            /\ cmd_i' = 0
       ELSE /\ cmd_pc' = "loop"
            /\ cmd_error' = "none"
            /\ cmd_i' = 1
    /\ UNCHANGED <<job_calls, connVars, cfgVars, obsVars>>

\* Lines 70-71 for a tenant the loop passes over.
skip_tenant ==
    /\ cmd_pc = "loop"
    /\ cmd_i <= Len(directory)
    /\ SkipsTenant(opt_skip_public, directory[cmd_i])
    /\ cmd_i' = cmd_i + 1
    /\ UNCHANGED <<cmd_pc, directory, opt_role_name, opt_skip_public, job_calls,
                   jobs, cmd_error, connVars, cfgVars, obsVars>>

execute_command_NoSwitch ==
    /\ cmd_pc = "loop"
    /\ cmd_i <= Len(directory)
    /\ ~SkipsTenant(opt_skip_public, directory[cmd_i])
    /\ jobs' = Append(jobs, [tenant |-> directory[cmd_i],
                             role_name |-> role_name,
                             include_public_role |-> include_public_role,
                             search_path_set |-> search_path_set])
    /\ cmd_pc' = "job"
    /\ job_calls' = 0
    /\ UNCHANGED <<directory, opt_role_name, opt_skip_public, cmd_i, cmd_error,
                   connVars, cfgVars, obsVars>>
\* Lines 70-72 and 46-58 for a tenant the job runs on: connection.set_tenant,
\* then call_command is entered. Each invocation is logged with the routing
\* state it finds.
execute_command ==
    /\ cmd_pc = "loop"
    /\ cmd_i <= Len(directory)
    /\ ~SkipsTenant(opt_skip_public, directory[cmd_i])
    /\ set_tenant(Tenant(directory[cmd_i]), TRUE)
    /\ jobs' = Append(jobs, [tenant |-> directory[cmd_i],
                             role_name |-> role_name',
                             include_public_role |-> include_public_role',
                             search_path_set |-> search_path_set'])
    /\ cmd_pc' = "job"
    /\ job_calls' = 0
    /\ UNCHANGED <<directory, opt_role_name, opt_skip_public, cmd_i, cmd_error>>

\* A statement of the running job: it goes through _cursor().
job_statement(name, cursor, outcome) ==
    /\ cmd_pc = "job"
    /\ job_calls < MaxJobCalls
    /\ _cursor(name, cursor, outcome)
    /\ job_calls' = job_calls + 1
    /\ UNCHANGED <<cmd_pc, directory, opt_role_name, opt_skip_public, cmd_i,
                   jobs, cmd_error>>

\* call_command returns: the loop goes on with the next tenant.
job_returns ==
    /\ cmd_pc = "job"
    /\ cmd_pc' = "loop"
    /\ cmd_i' = cmd_i + 1
    /\ UNCHANGED <<directory, opt_role_name, opt_skip_public, job_calls, jobs,
                   cmd_error, connVars, cfgVars, obsVars>>

job_raises_Continue ==
    /\ cmd_pc = "job"
    /\ cmd_pc' = "loop"
    /\ cmd_i' = cmd_i + 1
    /\ cmd_error' = "JobError"
    /\ UNCHANGED <<directory, opt_role_name, opt_skip_public, job_calls, jobs,
                   connVars, cfgVars, obsVars>>
\* call_command raises: nothing in execute_command or handle catches it.
job_raises ==
    /\ cmd_pc = "job"
    /\ cmd_pc' = "raised"
    /\ cmd_error' = "JobError"
    /\ UNCHANGED <<directory, opt_role_name, opt_skip_public, cmd_i, job_calls,
                   jobs, connVars, cfgVars, obsVars>>

\* The loop of line 70 is exhausted: handle returns.
handle_returns ==
    /\ cmd_pc = "loop"
    /\ cmd_i > Len(directory)
    /\ cmd_pc' = "done"
    /\ UNCHANGED <<directory, opt_role_name, opt_skip_public, cmd_i, job_calls,
                   jobs, cmd_error, connVars, cfgVars, obsVars>>

\* ------------------------------------------------------------------- Next
\* The wrapper under arbitrary callers.
Next ==
    \/ close /\ UNCHANGED <<cmdVars, histVars, syncVars, selVars>>
    \/ \E n \in TenantNames, b \in BOOLEAN :
          set_tenant(Tenant(n), b) /\ UNCHANGED <<cmdVars, histVars, syncVars, selVars>>
    \/ \E r \in RoleNames, b \in BOOLEAN :
          set_role(r, b) /\ UNCHANGED <<cmdVars, histVars, syncVars, selVars>>
    \/ set_role_to_public /\ UNCHANGED <<cmdVars, histVars, syncVars, selVars>>
    \/ \E name \in CursorNames, c \in Cursors, o \in ExecOutcomes :
          _cursor(name, c, o) /\ UNCHANGED <<cmdVars, histVars, syncVars, selVars>>

Spec == Init /\ [][Next]_vars

\* The directive executed last, after a call that left the record r.
Track(r) ==
    IF r.op = "_cursor" /\ r.outcome \in ExecOutcomes
    THEN [paths |-> r.paths, outcome |-> r.outcome]
    ELSE directive

\* The wrapper under arbitrary callers, the directive executed last kept.
NextHist ==
    \/ close /\ UNCHANGED <<cmdVars, histVars, syncVars, selVars>>
    \/ \E n \in TenantNames, b \in BOOLEAN :
          set_tenant(Tenant(n), b) /\ UNCHANGED <<cmdVars, histVars, syncVars, selVars>>
    \/ \E r \in RoleNames, b \in BOOLEAN :
          set_role(r, b) /\ UNCHANGED <<cmdVars, histVars, syncVars, selVars>>
    \/ set_role_to_public /\ UNCHANGED <<cmdVars, histVars, syncVars, selVars>>
    \/ \E name \in CursorNames, c \in Cursors, o \in ExecOutcomes :
          _cursor(name, c, o) /\ directive' = Track(ret')
          /\ UNCHANGED <<cmdVars, syncVars, selVars>>

SpecHist == Init /\ [][NextHist]_vars

\* One run of a BaseTenantCommand, on a fresh connection or on one that has
\* served a statement before.
NextCmd ==
    \/ \E name \in CursorNames, c \in Cursors, o \in ExecOutcomes :
          cmd_pc = "idle" /\ ncalls = 0 /\ _cursor(name, c, o)
          /\ UNCHANGED <<cmdVars, histVars, syncVars, selVars>>
    \/ \E rn \in TenantNames \cup {""}, skip \in BOOLEAN, dir \in Directories :
          handle(rn, skip, dir) /\ UNCHANGED <<histVars, syncVars, selVars>>
    \/ skip_tenant /\ UNCHANGED <<histVars, syncVars, selVars>>
    \/ execute_command /\ UNCHANGED <<histVars, syncVars, selVars>>
    \/ \E name \in CursorNames, c \in Cursors, o \in ExecOutcomes :
          job_statement(name, c, o) /\ UNCHANGED <<histVars, syncVars, selVars>>
    \/ job_returns /\ UNCHANGED <<histVars, syncVars, selVars>>
    \/ job_raises /\ UNCHANGED <<histVars, syncVars, selVars>>
    \/ handle_returns /\ UNCHANGED <<histVars, syncVars, selVars>>

SpecCmd == Init /\ [][NextCmd]_vars

\* ------------------------------------------------------------ SyncCommon
\* The executor option: not given, or one of the two the help names.
Executors == {"", "standard", "multiprocessing"}

\* Lines 153-163: the scope flags after the resolution, or the error.
SyncScope_PublicFirst(rn, tenant_opt, shared_opt) ==
    IF rn # ""
    THEN IF rn = PublicRoleName
         THEN [error |-> "none", sync_tenant |-> tenant_opt, sync_public |-> TRUE]
         ELSE IF shared_opt
         THEN [error |-> "CommandError", sync_tenant |-> tenant_opt,
               sync_public |-> shared_opt]
         ELSE [error |-> "none", sync_tenant |-> TRUE, sync_public |-> shared_opt]
    ELSE IF ~shared_opt /\ ~tenant_opt
    THEN [error |-> "none", sync_tenant |-> TRUE, sync_public |-> TRUE]
    ELSE [error |-> "none", sync_tenant |-> tenant_opt, sync_public |-> shared_opt]
SyncScope(rn, tenant_opt, shared_opt) ==
    IF rn # ""
    THEN IF shared_opt
         THEN [error |-> "CommandError", sync_tenant |-> tenant_opt,
               sync_public |-> shared_opt]
         ELSE IF rn = PublicRoleName
         THEN [error |-> "none", sync_tenant |-> tenant_opt, sync_public |-> TRUE]
         ELSE [error |-> "none", sync_tenant |-> TRUE, sync_public |-> shared_opt]
    ELSE IF ~shared_opt /\ ~tenant_opt
    THEN [error |-> "none", sync_tenant |-> TRUE, sync_public |-> TRUE]
    ELSE [error |-> "none", sync_tenant |-> tenant_opt, sync_public |-> shared_opt]

\* SyncCommon.handle, lines 144-168; `apps` are the names among TENANT_APPS,
\* SHARED_APPS that settings has.
sync_handle(tenant_opt, shared_opt, rn, ex, apps) ==
    LET scope == SyncScope(rn, tenant_opt, shared_opt)
    IN  /\ sync_pc = "idle"
        /\ sync_options' = [tenant |-> tenant_opt, shared |-> shared_opt,
                            role_name |-> rn, executor |-> ex, ncalls |-> ncalls]
        /\ sync_role_name' = rn
        /\ sync_executor' = ex
        /\ sync_tenant' = scope.sync_tenant
        /\ sync_public' = scope.sync_public
        /\ sync_error' = scope.error
        /\ IF scope.error # "none"
           THEN sync_pc' = "raised" /\ sync_apps' = {}
           ELSE sync_pc' = "done" /\ sync_apps' = apps
        /\ UNCHANGED <<connVars, cfgVars, obsVars>>

\* One run of SyncCommon.handle, on a fresh connection or on one that has
\* served a statement before.
NextSync ==
    \/ \E name \in CursorNames, c \in Cursors, o \in ExecOutcomes :
          sync_pc = "idle" /\ ncalls = 0 /\ _cursor(name, c, o)
          /\ UNCHANGED <<cmdVars, histVars, syncVars, selVars>>
    \/ \E t \in BOOLEAN, sh \in BOOLEAN, rn \in RoleNames, ex \in Executors,
          apps \in SUBSET {"TENANT_APPS", "SHARED_APPS"} :
          sync_handle(t, sh, rn, ex, apps)
          /\ UNCHANGED <<cmdVars, histVars, selVars>>

SpecSync == Init /\ [][NextSync]_vars

\* ------------------------------------------------- InteractiveTenantOption
\* What can be typed at the prompt of line 95.
Inputs == TenantNames \cup {"?", "", "nosuch"}
\* What options['role_name'] can be.
NameOptions == TenantNames \cup {"", "nosuch"}

\* The role names of a directory.
NamesOf(all) == {all[i] : i \in DOMAIN all}

\* Line 86: `not all_tenants`.
NoTenants_Never(all) == FALSE
NoTenants(all) == all = <<>>

\* Line 96: the input that asks for the listing.
AsksList_OrUnknown(inp, all) == inp = "?" \/ inp \notin NamesOf(all)
AsksList(inp, all) == inp = "?"

\* Lines 101-104 for the name `schema`: the lookups, the tenant returned or
\* the error.
Resolve(schema) ==
    /\ tenant_schema' = schema
    /\ IF schema \in NamesOf(all_tenants')
       THEN /\ sel_pc' = "done"
            /\ sel_lookups' = sel_lookups + 2
            /\ sel_result' = schema
            /\ sel_error' = "none"
       ELSE /\ sel_pc' = "raised"
            /\ sel_lookups' = sel_lookups + 1
            /\ sel_result' = ""
            /\ sel_error' = "InvalidTenant"

\* get_tenant_from_options_or_interactive, lines 82-93, up to the prompt.
get_tenant(opt, all) ==
    /\ sel_pc = "idle"
    /\ sel_opt' = opt
    /\ all_tenants' = all
    /\ UNCHANGED <<sel_prompts, sel_listed>>
    /\ IF NoTenants(all)
       THEN /\ sel_pc' = "raised"
            /\ sel_error' = "NoTenants"
            /\ UNCHANGED <<tenant_schema, sel_lookups, sel_result>>
       ELSE IF opt # ""
       THEN Resolve(opt)
       ELSE /\ sel_pc' = "prompt"
            /\ UNCHANGED <<tenant_schema, sel_lookups, sel_result, sel_error>>
    /\ UNCHANGED <<connVars, cfgVars, obsVars>>

\* Lines 94-104: one input read at the prompt.
read_input(inp) ==
    /\ sel_pc = "prompt"
    /\ sel_prompts < MaxPrompts
    /\ sel_prompts' = sel_prompts + 1
    /\ UNCHANGED <<sel_opt, all_tenants>>
    /\ IF AsksList(inp, all_tenants)
       THEN /\ sel_listed' = sel_listed + 1
            /\ tenant_schema' = inp
            /\ UNCHANGED <<sel_pc, sel_lookups, sel_result, sel_error>>
       ELSE /\ Resolve(inp)
            /\ UNCHANGED sel_listed
    /\ UNCHANGED <<connVars, cfgVars, obsVars>>

NextSel ==
    \/ \E opt \in NameOptions, all \in Directories :
          get_tenant(opt, all) /\ UNCHANGED <<cmdVars, histVars, syncVars>>
    \/ \E inp \in Inputs :
          read_input(inp) /\ UNCHANGED <<cmdVars, histVars, syncVars>>

SpecSel == Init /\ [][NextSel]_vars

\* ================================================================ claims
\* A _cursor() call executed the 'SET search_path' directive.
Issued(r) == r.op = "_cursor" /\ r.outcome \in ExecOutcomes

\* C1 as stated, for calls made with a role name selected: with caching
\* enabled, in every run of _cursor() calls with no setter or close() between
\* them and one cursor identity throughout, the directive is executed exactly
\* once.
C1_ExactlyOnce ==
    (limit_set_calls /\ runCalls >= 1 /\ role_name # "") => runIssued = 1

\* C1, amended: with caching enabled, in every such run whose first call's
\* directive the engine accepted, the directive is executed exactly once, on
\* that first call, and on no later call of the run.
C1_ExactlyOnceWhenAccepted ==
    (limit_set_calls /\ runCalls >= 1 /\ runFirst = "ok") =>
        /\ runIssued = 1
        /\ (runCalls >= 2 => ret.outcome = "cached")

C1_Witness ==
    /\ limit_set_calls
    /\ runCalls >= 3
    /\ runFirst = "ok"
    /\ runIssued = 1

\* C2: with caching enabled and search_path_set true on entry, a _cursor()
\* call whose cursor is not the recorded _previous_cursor executes the
\* directive, role_name and include_public_role being what they were.
C2_IdentityChangeReissues ==
    (/\ ret.op = "_cursor"
     /\ limit_set_calls
     /\ ret.was_set
     /\ ret.cursor # ret.was_prev) => Issued(ret)

C2_Witness ==
    /\ ret.op = "_cursor"
    /\ limit_set_calls
    /\ ret.was_set
    /\ ret.was_prev # None
    /\ ret.cursor # ret.was_prev
    /\ ret.after.op = "_cursor"
    /\ Issued(ret)

\* C3 as stated: with caching disabled every _cursor() call executes the
\* directive.
C3_EveryCallIssues ==
    (ret.op = "_cursor" /\ ~limit_set_calls) => Issued(ret)

\* C3, amended: with caching disabled every _cursor() call made with a
\* non-empty role_name executes the directive, whatever search_path_set and
\* _previous_cursor are; with an empty role_name the call raises
\* ImproperlyConfigured and executes none.
C3_EveryConfiguredCallIssues ==
    (ret.op = "_cursor" /\ ~limit_set_calls) =>
        IF role_name = ""
        THEN ret.raised = "ImproperlyConfigured" /\ ~Issued(ret)
        ELSE Issued(ret)

C3_Witness ==
    /\ ret.op = "_cursor"
    /\ ~limit_set_calls
    /\ ret.was_set
    /\ ret.was_prev = ret.cursor
    /\ Issued(ret)

\* C4: _cursor() right after set_tenant(T, include_public), T.role_name not
\* the shared name, executes the directive with the list [T.role_name,
\* shared name] when include_public, [T.role_name] otherwise, followed by
\* the extra search paths in configuration order.
C4_TenantSearchPaths ==
    (/\ ret.op = "_cursor"
     /\ ret.after.op = "set_tenant"
     /\ tenant.role_name # PublicRoleName) =>
        /\ Issued(ret)
        /\ ret.paths = (IF include_public_role = <<TRUE>>
                        THEN <<tenant.role_name, PublicRoleName>>
                        ELSE <<tenant.role_name>>) \o EXTRA_SEARCH_PATHS

C4_Witness ==
    /\ ret.op = "_cursor"
    /\ ret.after.op = "set_tenant"
    /\ ret.paths = <<"acme", "public", "ext_a", "ext_b">>

\* C5 as stated: _cursor() right after set_role_to_public() executes the
\* directive with the list [shared name] and nothing more.
C5_PublicOnly ==
    (ret.op = "_cursor" /\ ret.after.op = "set_role_to_public") =>
        Issued(ret) /\ ret.paths = <<PublicRoleName>>

\* C5, amended: _cursor() right after set_role_to_public() executes the
\* directive with the list [shared name] followed by the extra search paths
\* in configuration order.
C5_PublicThenExtras ==
    (ret.op = "_cursor" /\ ret.after.op = "set_role_to_public") =>
        Issued(ret) /\ ret.paths = <<PublicRoleName>> \o EXTRA_SEARCH_PATHS

C5_Witness ==
    /\ ret.op = "_cursor"
    /\ ret.after.op = "set_role_to_public"
    /\ ret.paths = <<"public", "shared_extra">>

\* C6 as stated: the first _cursor() on a freshly constructed wrapper, no
\* setter called by the caller, raises ImproperlyConfigured and executes no
\* directive.
C6_FreshRaises ==
    (ret.op = "_cursor" /\ ret.after.op = "__init__") =>
        ret.raised = "ImproperlyConfigured" /\ ~Issued(ret)

\* C6, amended: the constructor itself calls set_role_to_public(), so the
\* first _cursor() on a freshly constructed wrapper does not raise
\* ImproperlyConfigured: it executes the directive for the shared name
\* followed by the extra search paths. _cursor() raises ImproperlyConfigured,
\* executing no directive, exactly when role_name is empty.
C6_FreshIssuesPublic ==
    /\ (ret.op = "_cursor" /\ ret.after.op = "__init__") =>
          /\ Issued(ret)
          /\ ret.raised # "ImproperlyConfigured"
          /\ ret.paths = <<PublicRoleName>> \o EXTRA_SEARCH_PATHS
    /\ ret.op = "_cursor" =>
          /\ (ret.raised = "ImproperlyConfigured") = (role_name = "")
          /\ (ret.raised = "ImproperlyConfigured" => ~Issued(ret))

C6_Witness ==
    /\ ret.op = "_cursor"
    /\ ret.after.op = "__init__"
    /\ ret.outcome = "ok"
    /\ ret.returned = ret.cursor

\* C7 as stated: whatever way the engine fails the directive, named cursor
\* or not, _cursor() raises nothing, returns the cursor of the wrapped
\* connection and leaves search_path_set false.
C7_AnyFailureSwallowed ==
    (Issued(ret) /\ ret.outcome # "ok") =>
        /\ ret.raised = "none"
        /\ ret.returned = ret.cursor
        /\ ~search_path_set

\* C7, amended: when the engine fails the directive with
\* django.db.utils.DatabaseError or psycopg2.InternalError, named cursor or
\* not, _cursor() raises nothing, returns the cursor of the wrapped
\* connection and leaves search_path_set false, so that a _cursor() call
\* coming next executes the directive again; any other exception leaves
\* _cursor() and search_path_set is what it was on entry.
C7_CaughtFailureSwallowed ==
    /\ (Issued(ret) /\ Caught(ret.outcome)) =>
          /\ ret.raised = "none"
          /\ ret.returned = ret.cursor
          /\ ~search_path_set
    /\ (ret.op = "_cursor" /\ ret.after.op = "_cursor"
        /\ Caught(ret.after.outcome)) => Issued(ret)
    /\ (Issued(ret) /\ ret.outcome # "ok" /\ ~Caught(ret.outcome)) =>
          /\ ret.raised = ret.outcome
          /\ ret.returned = None
          /\ search_path_set = ret.was_set

C7_Witness ==
    /\ ret.op = "_cursor"
    /\ ret.after.op = "_cursor"
    /\ Caught(ret.after.outcome)
    /\ ret.cursor = ret.was_prev
    /\ limit_set_calls
    /\ ret.named
    /\ ret.outcome = "InternalError"
    /\ ~search_path_set

\* C8: close() leaves search_path_set false, and the _cursor() call coming
\* next executes the directive again, with role_name, include_public_role
\* and the cursor identity what they were before the close().
C8_CloseForcesReissue ==
    /\ ret.op = "close" => ~search_path_set
    /\ (ret.op = "_cursor" /\ ret.after.op = "close" /\ role_name # "") =>
          Issued(ret)

C8_Witness ==
    /\ ret.op = "_cursor"
    /\ ret.after.op = "close"
    /\ ret.after.was_set
    /\ limit_set_calls
    /\ ret.cursor = ret.was_prev
    /\ Issued(ret)

\* C9: a setter call changes the routing state alone: tenant, role_name,
\* the include-public flag, settings ROLE, search_path_set := false. It
\* executes no directive and obtains no cursor: the number of directives
\* executed and _previous_cursor are what they were.
C9_SettersLazy ==
    [][ret'.op \in Setters =>
          /\ nissued' = nissued
          /\ ncalls' = ncalls
          /\ _previous_cursor' = _previous_cursor
          /\ ret'.cursor = None
          /\ search_path_set' = FALSE
          /\ tenant'.role_name = role_name'
          /\ settings_ROLE' = role_name'
          /\ UNCHANGED cfgVars]_vars

C9_Witness ==
    /\ ret.op \in Setters
    /\ ret.was_set
    /\ nissued >= 1
    /\ _previous_cursor # None
    /\ role_name = "acme"

\* The tenants of a directory the loop of line 70 does not pass over, in
\* directory order.
RECURSIVE Kept(_, _)
Kept(skip, dir) ==
    IF dir = <<>> THEN <<>>
    ELSE IF skip /\ Head(dir) = PublicRoleName THEN Kept(skip, Tail(dir))
    ELSE <<Head(dir)>> \o Kept(skip, Tail(dir))

\* The tenants the job was invoked for, in order.
Invoked == [k \in DOMAIN jobs |-> jobs[k].tenant]

\* C10: in all-tenants mode handle invokes the job once for each tenant of
\* the directory, in directory order, passing over the tenants named like
\* the shared role when skip_public is set: while it runs the invocations
\* made are those for the tenants it has gone past, and when it returns they
\* are those for the whole directory.
C10_AllTenantsInOrder ==
    (opt_role_name = "" /\ cmd_pc # "idle") =>
        /\ cmd_pc \in {"loop", "done"} =>
              Invoked = Kept(opt_skip_public, SubSeq(directory, 1, cmd_i - 1))
        /\ cmd_pc \in {"job", "raised"} =>
              Invoked = Kept(opt_skip_public, SubSeq(directory, 1, cmd_i))
        /\ cmd_pc = "done" => Invoked = Kept(opt_skip_public, directory)

C10_Witness ==
    /\ cmd_pc = "done"
    /\ opt_role_name = ""
    /\ opt_skip_public
    /\ directory = <<"public", "acme", "globex">>
    /\ Invoked = <<"acme", "globex">>

\* The list the directive has for a role name and an include-public flag.
ListFor(role, inc) ==
    IF role = PublicRoleName THEN <<PublicRoleName>> \o EXTRA_SEARCH_PATHS
    ELSE IF inc = <<TRUE>> THEN <<role, PublicRoleName>> \o EXTRA_SEARCH_PATHS
    ELSE <<role>> \o EXTRA_SEARCH_PATHS

\* C15: in every state reached by set_tenant, set_role, set_role_to_public,
\* close and _cursor calls, the directive succeeding or failing,
\* search_path_set is true only if the directive executed last succeeded and
\* its list is the one of the current role_name and include_public_role; so
\* it is false from a setter or close() to the next directive that succeeds.
C15_SetOnlyIfApplied ==
    /\ search_path_set =>
          /\ directive.outcome = "ok"
          /\ directive.paths = ListFor(role_name, include_public_role)
    /\ ret.op \in Setters \cup {"close"} => ~search_path_set

\* C16: a directive that an exception which is not swallowed interrupts
\* leaves search_path_set false, and the _cursor() call coming next executes
\* the directive again, on the same cursor identity and after an entry with
\* search_path_set true as well.
C16_InterruptedLeavesUnset ==
    /\ (Issued(ret) /\ ret.raised # "none") => ~search_path_set
    /\ (ret.op = "_cursor" /\ ret.after.op = "_cursor"
        /\ ret.after.outcome \in ExecOutcomes
        /\ ret.after.outcome # "ok" /\ ~Caught(ret.after.outcome)) =>
          Issued(ret)

\* C17: every _cursor(name) call with a non-empty name executes the
\* directive, whatever search_path_set and _previous_cursor are and with
\* caching enabled, on an administrative cursor of its own that is closed
\* when _cursor returns, and returns the named cursor.
C17_NamedAlwaysFresh ==
    (ret.op = "_cursor" /\ ret.named /\ role_name # "") =>
        /\ Issued(ret)
        /\ ret.raised = "none" =>
              /\ ret.admin = "closed"
              /\ ret.returned = ret.cursor

\* The role name given to handle is the name of a tenant of the directory.
InDirectory == \E i \in DOMAIN directory : directory[i] = opt_role_name

\* C11: given the role name of a tenant of the directory, handle switches
\* the connection to the shared role, looks the tenant up by name and invokes
\* the job once, the connection set to that tenant, and for no other tenant.
C11_SingleTenantRunsOnce ==
    (opt_role_name # "" /\ InDirectory /\ cmd_pc \in {"done", "raised"}) =>
        /\ cmd_error \in {"none", "JobError"}
        /\ Invoked = <<opt_role_name>>
        /\ jobs[1].role_name = opt_role_name

\* C12: given a role name no tenant of the directory has, handle fails with
\* the unknown-tenant error and the job is never invoked.
C12_UnknownTenantFails ==
    (opt_role_name # "" /\ ~InDirectory /\ cmd_pc # "idle") =>
        /\ cmd_pc = "raised"
        /\ cmd_error = "DoesNotExist"
        /\ jobs = <<>>

\* C13: in all-tenants mode a job that fails for a tenant leaves handle as
\* an exception: the job is invoked for no tenant after that one, and it was
\* invoked once for each kept tenant before it.
C13_FailFast ==
    (opt_role_name = "" /\ cmd_error = "JobError") =>
        /\ cmd_pc = "raised"
        /\ cmd_i \in 1..Len(directory)
        /\ Invoked = Kept(opt_skip_public, SubSeq(directory, 1, cmd_i))
        /\ Invoked[Len(Invoked)] = directory[cmd_i]
        /\ \A k, l \in DOMAIN Invoked : k # l => Invoked[k] # Invoked[l]

C13_Witness ==
    /\ opt_role_name = ""
    /\ cmd_pc = "raised"
    /\ cmd_error = "JobError"
    /\ directory = <<"acme", "public", "globex">>
    /\ ~opt_skip_public
    /\ Invoked = <<"acme", "public">>

\* C18: every job invocation of BaseTenantCommand finds the routing state
\* set to its tenant: role_name is the tenant's name, the shared role is
\* included and search_path_set is false; so the first statement of the job
\* executes the directive for that tenant.
C18_RoutedBeforeJob ==
    /\ \A k \in DOMAIN jobs :
          /\ jobs[k].role_name = jobs[k].tenant
          /\ jobs[k].include_public_role = <<TRUE>>
          /\ ~jobs[k].search_path_set
    /\ (cmd_pc = "job" /\ job_calls = 1) =>
          /\ Issued(ret)
          /\ ret.paths = (IF directory[cmd_i] = PublicRoleName
                          THEN <<PublicRoleName>>
                          ELSE <<directory[cmd_i], PublicRoleName>>)
                         \o EXTRA_SEARCH_PATHS

C18_Witness ==
    /\ cmd_pc = "job"
    /\ job_calls = 1
    /\ Len(jobs) = 2
    /\ limit_set_calls
    /\ ret.was_prev = ret.cursor
    /\ jobs[1].tenant = "acme"
    /\ ret.paths = <<"globex", "public">> \o EXTRA_SEARCH_PATHS

\* C14: SyncCommon.handle given a role name together with the shared-only
\* option fails with CommandError, whatever the role name, the shared one
\* too, with no statement sent to the database and the scope flags what the
\* options made them.
C14_ConflictingScope ==
    (sync_pc # "idle" /\ sync_options.role_name # "" /\ sync_options.shared) =>
        /\ sync_pc = "raised"
        /\ sync_error = "CommandError"
        /\ sync_tenant = sync_options.tenant
        /\ sync_public = sync_options.shared
        /\ ncalls = sync_options.ncalls

C14_Witness ==
    /\ sync_pc = "raised"
    /\ sync_error = "CommandError"
    /\ sync_options.role_name = PublicRoleName
    /\ sync_options.shared
    /\ ~sync_options.tenant
    /\ ncalls = 1

\* The run of get_tenant_from_options_or_interactive was given no name and a
\* directory with tenants in it.
Interactive == sel_opt = "" /\ all_tenants # <<>> /\ sel_pc # "idle"

\* C19 (as stated): with no explicit name the operation never fails: an
\* input that is not the name of a tenant leads to another prompt, and the
\* operation returns only a tenant whose name was entered.
C19_RepromptsUntilValid ==
    Interactive =>
        /\ sel_pc \in {"prompt", "done"}
        /\ sel_error = "none"
        /\ sel_pc = "done" =>
              /\ tenant_schema \in NamesOf(all_tenants)
              /\ sel_result = tenant_schema

\* C19 (amended): with no explicit name, only '?' leads to another prompt,
\* after a listing; the first other input ends the operation: it returns the
\* tenant of that name when there is one and raises the invalid-tenant
\* CommandError when there is none.
C19_PromptsUntilAnswer ==
    Interactive =>
        /\ sel_pc = "prompt" =>
              /\ sel_listed = sel_prompts
              /\ sel_lookups = 0
              /\ sel_prompts > 0 => tenant_schema = "?"
        /\ sel_pc = "done" =>
              /\ sel_listed = sel_prompts - 1
              /\ tenant_schema \in NamesOf(all_tenants)
              /\ sel_result = tenant_schema
              /\ sel_error = "none"
        /\ sel_pc = "raised" =>
              /\ sel_listed = sel_prompts - 1
              /\ sel_error = "InvalidTenant"
              /\ tenant_schema \notin NamesOf(all_tenants) \cup {"?"}
              /\ sel_result = ""

C19_Witness ==
    /\ Interactive
    /\ sel_pc = "raised"
    /\ sel_error = "InvalidTenant"
    /\ sel_prompts = 2
    /\ sel_listed = 1
    /\ tenant_schema = "nosuch"
    /\ all_tenants = <<"acme", "public">>

\* C20: with an empty directory the operation fails with the no-tenants
\* CommandError, with or without an explicit name, having read no input,
\* printed no listing and looked up no name.
C20_EmptyDirectoryFailsFirst ==
    (sel_pc # "idle" /\ all_tenants = <<>>) =>
        /\ sel_pc = "raised"
        /\ sel_error = "NoTenants"
        /\ sel_prompts = 0
        /\ sel_listed = 0
        /\ sel_lookups = 0
        /\ sel_result = ""

C20_Witness ==
    /\ sel_pc = "raised"
    /\ sel_error = "NoTenants"
    /\ all_tenants = <<>>
    /\ sel_opt = "acme"
    /\ sel_prompts = 0
    /\ sel_lookups = 0

====
